---- MODULE Spec2Model ----
(***************************************************************************)
(* A model of argparse_prompt.py: the prompt engine `promptor`, the        *)
(* prompting argument action `PromptArgumentParserAction` and the parser   *)
(* facade `PromptArgumentParser`.                                          *)
(*                                                                         *)
(* Python strings are sequences of one-character strings.  Python values   *)
(* are records [t, s, n, l] tagged by their type: None, str, int or list.  *)
(***************************************************************************)
EXTENDS Integers, Sequences

VARIABLES
    pc,          \* where the process is: "idle", "prompting", "rendering",
                 \* "returned" (a direct promptor call has returned),
                 \* "raised" (an exception left the core), "exited"
    actions,     \* the parser's _actions: the sequence of its slots
    namespace,   \* the result namespace: one value per slot (None: unset)
    stack,       \* the call stack of promptor frames, innermost last
    caller,      \* who called the outermost promptor: 0 = a direct call,
                 \* i > 0 = the type wrapper of slot i
    typed,       \* the value the type wrapper / promptor last returned
    args,        \* the arguments of the outermost promptor call, once made
    reads,       \* number of input() calls so far (prompts written)
    conv_calls,  \* number of calls of a caller-supplied type converter
    stderr,      \* the diagnostics printed to stderr, in order
    stdout,      \* the lines the core itself printed to stdout, in order
    exit_status, \* the exit status once pc = "exited", else -1
    render,      \* the render in progress, if any
    host,        \* the slots whose type function / __call__ the host has called
    last         \* the operation that took the last step, with its input

vars == <<pc, actions, namespace, stack, caller, typed, args, reads, conv_calls,
          stderr, stdout, exit_status, render, host, last>>

----------------------------------------------------------------------------
(* Bounds of the model                                                     *)

MaxLen == 2      \* every input line of at most this many characters is tried
MaxN == 2        \* integer nargs range over 0..MaxN
MaxReads == 3    \* input() calls in one run

----------------------------------------------------------------------------
(* Python values                                                           *)

PyNone == [t |-> "None", s |-> <<>>, n |-> 0, l |-> <<>>]
PyStr(s) == [t |-> "str", s |-> s, n |-> 0, l |-> <<>>]
PyInt(n) == [t |-> "int", s |-> <<>>, n |-> n, l |-> <<>>]
PyList(l) == [t |-> "list", s |-> <<>>, n |-> 0, l |-> l]

\* bool(v): the truth value Python gives v in `not v`, `v if v else ...`
Truthy(v) ==
    CASE v.t = "None" -> FALSE
      [] v.t = "str" -> v.s # <<>>
      [] v.t = "int" -> v.n # 0
      [] v.t = "list" -> v.l # <<>>

\* len(v) for a str or a list
PyLen(v) == IF v.t = "list" THEN Len(v.l) ELSE Len(v.s)

----------------------------------------------------------------------------
(* Strings                                                                 *)

Chars == {"0", "7", " ", ","}

\* Longer lines tried besides every line of at most MaxLen characters.
LongLines ==
    { <<"0", ",", " ", "7">>,                  \* "0, 7"
      <<"7", ",", " ", "7">>,                  \* "7, 7"
      <<" ", "7", ",", " ", "0", " ">>,        \* " 7, 0 "
      <<",", " ", "7">>,                       \* ", 7": an empty first element
      <<"7", ",", " ", ",">>,                  \* "7, ,": an inconvertible element
      <<"7", ",", " ", " ", "7">>,             \* "7,  7": a padded element
      <<"7", " ", "7">>,                       \* "7 7"
      <<"7", ",", " ", "7", ",", " ", "7">> }  \* "7, 7, 7"

Lines == (UNION {[1..n -> Chars] : n \in 0..MaxLen}) \cup LongLines

RECURSIVE LStrip(_)
LStrip(s) == IF s # <<>> /\ Head(s) = " " THEN LStrip(Tail(s)) ELSE s

RECURSIVE RStrip(_)
RStrip(s) ==
    IF s # <<>> /\ s[Len(s)] = " " THEN RStrip(SubSeq(s, 1, Len(s) - 1)) ELSE s

\* str.strip()
Strip(s) == RStrip(LStrip(s))

RECURSIVE SplitRec(_, _)
SplitRec(s, cur) ==
    IF s = <<>> THEN <<cur>>
    ELSE IF Len(s) >= 2 /\ s[1] = "," /\ s[2] = " "
         THEN <<cur>> \o SplitRec(SubSeq(s, 3, Len(s)), <<>>)
         ELSE SplitRec(Tail(s), Append(cur, s[1]))

\* str.split(', '): the elements between occurrences of the separator ", "
Split(s) == SplitRec(s, <<>>)

Digit(c) == IF c = "7" THEN 7 ELSE 0

RECURSIVE Decimal(_)
Decimal(s) ==
    IF s = <<>> THEN 0 ELSE 10 * Decimal(SubSeq(s, 1, Len(s) - 1)) + Digit(s[Len(s)])

\* int(s): surrounding whitespace is ignored, then every character must be a
\* digit and there must be one; anything else raises ValueError.
IntOk(s) == Strip(s) # <<>> /\ \A i \in 1..Len(Strip(s)) : Strip(s)[i] \in {"0", "7"}

\* A caller-supplied converter applied to the string s.
ConvRaises(conv, s) == conv = "int" /\ ~IntOk(s)
ConvValue(conv, s) == IF conv = "int" THEN PyInt(Decimal(Strip(s))) ELSE PyStr(s)

----------------------------------------------------------------------------
(* Diagnostics                                                             *)

CountDiag(n) ==
    [msg |-> "Incorrect number of arguments provided. Need N. Try again.", N |-> n]
ConvDiag ==
    [msg |-> "Could not convert the inputted value to its specified type. Try again.",
     N |-> 0]

----------------------------------------------------------------------------
(* promptor (lines 8-47)                                                   *)

\* The local state of one promptor call.  `at` is the position in the body:
\* "input" (about to call input(), line 28), "convert" (about to run or to
\* continue the conversion of lines 35-42), "await" (a type converter called
\* from the list comprehension is itself running promptor).  `acc` holds the
\* elements of the list comprehension of lines 37-40 converted so far.
NewFrame(parameter_name, type_converter, use_list, num_required_args) ==
    [parameter_name |-> parameter_name, type_converter |-> type_converter,
     use_list |-> use_list, num_required_args |-> num_required_args,
     full_value |-> PyNone, inputted_value |-> PyNone, acc |-> <<>>, at |-> "input"]

\* The arguments a promptor call was given.
CallArgs(f) ==
    [type_converter |-> f.type_converter, use_list |-> f.use_list,
     num_required_args |-> f.num_required_args]

NoArgs == [type_converter |-> "None", use_list |-> FALSE, num_required_args |-> 0]

Top == stack[Len(stack)]

SetTop(f) == [stack EXCEPT ![Len(stack)] = f]

\* promptor returns v (lines 33 and 47): to the converter call of the enclosing
\* promptor's list comprehension when there is one, else to its caller.
PromptorReturn(v) ==
    IF Len(stack) > 1
    THEN /\ stack' = [SubSeq(stack, 1, Len(stack) - 1) EXCEPT ![Len(stack) - 1] =
                        [@ EXCEPT !.acc = Append(@, v), !.at = "convert"]]
         /\ UNCHANGED <<pc, typed>>
    ELSE /\ stack' = <<>>
         /\ typed' = v
         /\ pc' = IF caller = 0 THEN "returned" ELSE "idle"

----------------------------------------------------------------------------
(* PromptArgumentParserAction (lines 50-137)                               *)

\* nargs as Python has it: None, one of the strings "?", "*", "+", or an int.
NargsNone == [sym |-> "None", n |-> 0]
NargsSym(c) == [sym |-> c, n |-> 0]
NargsInt(k) == [sym |-> "int", n |-> k]

\* int(self._nargs or '1') for nargs None or an int (lines 70, 79): None and
\* the falsy int 0 both give int('1').
IntOfNargsOr1(nargs) == IF nargs.sym = "int" /\ nargs.n # 0 THEN nargs.n ELSE 1

\* int(self._nargs or '1') raises ValueError on a string that is no number.
IntOfNargsRaises(nargs) == nargs.sym \in {"?", "*", "+"}

\* self._num_required_args (lines 65-70)
NumRequiredArgs(nargs) ==
    IF nargs.sym \in {"*", "?"} THEN 0
    ELSE IF nargs.sym = "+" THEN 1
    ELSE IntOfNargsOr1(nargs)

\* kwargs['nargs'] (line 74)
CraftedNargs(num_required_args) ==
    IF num_required_args > 1 THEN NargsSym("*") ELSE NargsSym("?")

\* __init__ (lines 51-99).  kw is the keyword arguments the host parser passes:
\* option_strings, dest, and required, nargs, type, default (None when the key
\* is absent).  `kwargs` is the dictionary the type wrapper closes over, as the
\* constructor leaves it: line 76 stores the wrapper itself under 'type'.
\* The name-mangled self.__required etc. are the fields __required etc.
NewAction(kw) ==
    [kind |-> "prompt",
     dest |-> kw.dest,
     option_strings |-> kw.option_strings,
     provided_restored |-> FALSE,
     _argument_name |-> IF kw.option_strings # <<>> THEN kw.option_strings[1] ELSE kw.dest,
     _required |-> kw.required,
     _nargs |-> kw.nargs,
     _type |-> kw.type,
     _default |-> kw.default,
     _num_required_args |-> NumRequiredArgs(kw.nargs),
     kwargs |-> [dest |-> kw.dest, type |-> "wrapper"],
     __required |-> "False",
     __nargs |-> CraftedNargs(NumRequiredArgs(kw.nargs)),
     __type |-> "wrapper",
     __default |-> PyStr(<<>>),
     required |-> "False",
     nargs |-> CraftedNargs(NumRequiredArgs(kw.nargs)),
     type |-> "wrapper",
     default |-> PyStr(<<>>)]

\* A variant of restore_provided that leaves required as it is.
restore_provided_without_required(a) ==
    [a EXCEPT !.nargs = a._nargs, !.type = a._type, !.default = a._default]

\* restore_provided (lines 101-113)
restore_provided(a) ==
    [a EXCEPT !.required = a._required, !.nargs = a._nargs,
              !.type = a._type, !.default = a._default]

\* A variant of restore_crafted that leaves nargs as it is.
restore_crafted_without_nargs(a) ==
    [a EXCEPT !.required = a.__required, !.type = a.__type, !.default = a.__default]

\* A variant of restore_crafted that leaves default as it is.
restore_crafted_without_default(a) ==
    [a EXCEPT !.required = a.__required, !.nargs = a.__nargs, !.type = a.__type]

\* restore_crafted (lines 115-127)
restore_crafted(a) ==
    [a EXCEPT !.required = a.__required, !.nargs = a.__nargs,
              !.type = a.__type, !.default = a.__default]

\* The arguments the type wrapper passes to promptor (lines 76-81).
\* kwargs.get('type', str) is looked up when the wrapper runs.
WrapperTypeConverter(a) == a.kwargs.type

\* use_list (line 79): `A and B or C` is `(A and B) or C`; C is evaluated, and
\* int('?') raises ValueError, exactly when A and B is false.
UseListRaises(a) ==
    ~(a._nargs.sym # "?" /\ a._nargs.sym \in {"*", "+"}) /\ IntOfNargsRaises(a._nargs)

\* A variant of UseList that looks at the number of arguments only.
UseListOnlyForCounts(a) ==
    ~IntOfNargsRaises(a._nargs) /\ IntOfNargsOr1(a._nargs) > 1

UseList(a) ==
    \/ (a._nargs.sym # "?" /\ a._nargs.sym \in {"*", "+"})
    \/ (~IntOfNargsRaises(a._nargs) /\ IntOfNargsOr1(a._nargs) > 1)

WrapperFrame(a) ==
    NewFrame(a.kwargs.dest, WrapperTypeConverter(a), UseList(a), a._num_required_args)

\* A variant of ArityViolated that lets a value with too many elements pass.
ArityViolatedOnlyTooFew(a, result_value) ==
    a._num_required_args > 1 /\ PyLen(result_value) < a._num_required_args

\* The arity test of __call__ (line 131)
ArityViolated(a, result_value) ==
    a._num_required_args > 1 /\ PyLen(result_value) # a._num_required_args

----------------------------------------------------------------------------
(* The steps of promptor                                                   *)

\* What an add_argument call is given: the first name, the keys required,
\* nargs, type ("None": key absent), whether a default key is present, and its
\* value when it is.
NoDecl ==
    [name |-> <<>>, required |-> "None", nargs |-> NargsNone, type |-> "None",
     has_default |-> FALSE, default |-> PyNone]

\* The record of the last step: the operation, the slot it concerned (0: none),
\* the value it was given, and for input() whether the stripped line was empty
\* and how many ', '-separated elements it had.
Step(op, slot, arg) ==
    [op |-> op, slot |-> slot, arg |-> arg, empty |-> FALSE, count |-> 0, decl |-> NoDecl]

\* A variant of CountMismatch that rejects only lines with too few elements.
CountMismatchOnlyTooFew(use_list, inputted_value, num_required_args) ==
    use_list /\ Len(Split(inputted_value)) < num_required_args

\* Line 29: in list mode the number of elements must be num_required_args.
CountMismatch(use_list, inputted_value, num_required_args) ==
    use_list /\ Len(Split(inputted_value)) # num_required_args

\* Line 27: `while not inputted_value`
InnerLoopsAgain(inputted_value) == ~Truthy(inputted_value)

\* Line 25: `while not full_value`
OuterLoopsAgain(full_value) == ~Truthy(full_value)

\* Lines 28-33: one pass of the inner loop, reading `line` from the terminal.
PromptRead(line) ==
    /\ pc = "prompting"
    /\ Top.at = "input"
    /\ reads < MaxReads
    /\ reads' = reads + 1
    /\ LET f == Top
           stripped == Strip(line)
           mismatch == CountMismatch(f.use_list, stripped, f.num_required_args)
           inputted_value == IF mismatch THEN PyNone ELSE PyStr(stripped)
       IN /\ stderr' = IF mismatch
                       THEN Append(stderr, CountDiag(f.num_required_args))
                       ELSE stderr
          /\ last' = [Step("input", caller, PyStr(stripped)) EXCEPT
                          !.empty = (stripped = <<>>),
                          !.count = Len(Split(stripped))]
          /\ IF ~Truthy(inputted_value) /\ f.num_required_args = 0
             THEN PromptorReturn(PyStr(<<>>))
             ELSE /\ stack' = SetTop([f EXCEPT
                                 !.inputted_value = inputted_value,
                                 !.at = IF InnerLoopsAgain(inputted_value)
                                        THEN "input" ELSE "convert"])
                  /\ UNCHANGED <<pc, typed>>
    /\ UNCHANGED <<actions, namespace, caller, args, conv_calls, stdout, exit_status,
                   render, host>>

\* The type converter applied to the string e raises (and the bare except of
\* line 43 catches it).  The wrapper raises when it evaluates use_list.
ElementRaises(conv, e) ==
    IF conv = "wrapper"
    THEN e = <<>> /\ UseListRaises(actions[caller])
    ELSE ConvRaises(conv, e)

\* The type converter applied to e starts a nested promptor: the converter is
\* a slot's type wrapper and e is empty (line 76).
ElementPrompts(conv, e) ==
    conv = "wrapper" /\ e = <<>> /\ ~UseListRaises(actions[caller])

\* A variant of ElementValue that leaves the element unconverted.
ElementValueUnconverted(conv, e) == PyStr(e)

\* The value of the type converter on e when it neither raises nor prompts:
\* the wrapper returns a non-empty string unchanged.
ElementValue(conv, e) == IF conv = "wrapper" THEN PyStr(e) ELSE ConvValue(conv, e)

\* The strings the conversion of lines 35-42 converts, in order.
Elements(f) ==
    IF f.use_list THEN Split(f.inputted_value.s) ELSE <<f.inputted_value.s>>

\* The first element from position k on at which the conversion stops, because
\* the converter raises or prompts; 0 when there is none.
FirstStop(conv, elems, k) ==
    LET stops == {j \in k..Len(elems) :
                     ElementRaises(conv, elems[j]) \/ ElementPrompts(conv, elems[j])}
    IN IF stops = {} THEN 0 ELSE CHOOSE j \in stops : \A i \in stops : j <= i

\* The result of a finished conversion (lines 36-42).
Converted(f, values) == IF f.use_list THEN PyList(values) ELSE values[1]

\* A variant of AfterConvertError that keeps the elements converted before the
\* failure for the next attempt.
AfterConvertErrorKeepsPartial(f, values) ==
    [f EXCEPT !.inputted_value = PyNone, !.acc = values, !.at = "input"]

\* The frame after a conversion that raised (lines 43-45, then 25-26): the
\* elements converted before the failure are dropped with the comprehension,
\* full_value keeps the value it had, and the inner loop starts afresh.
AfterConvertError(f, values) ==
    [f EXCEPT !.inputted_value = PyNone, !.acc = <<>>, !.at = "input"]

\* Lines 35-47: the conversion of the accepted line, from the element after
\* those already converted, then the test of the outer loop and the return.
PromptConvert ==
    /\ pc = "prompting"
    /\ Top.at = "convert"
    /\ LET f == Top
           conv == f.type_converter
           elems == Elements(f)
           k == Len(f.acc) + 1
           j == FirstStop(conv, elems, k)
           upto == IF j = 0 THEN Len(elems) ELSE j - 1
           values == f.acc \o [i \in 1..(upto - k + 1) |-> ElementValue(conv, elems[k + i - 1])]
       IN /\ last' = Step("convert", caller, f.inputted_value)
          /\ conv_calls' = conv_calls + (IF j = 0 THEN Len(elems) ELSE j) - k + 1
          /\ IF j = 0
             THEN \* converted: full_value is assigned, the outer loop is tested
                  /\ UNCHANGED stderr
                  /\ IF OuterLoopsAgain(Converted(f, values))
                     THEN /\ stack' = SetTop([f EXCEPT
                                         !.full_value = Converted(f, values),
                                         !.inputted_value = PyNone,
                                         !.acc = <<>>, !.at = "input"])
                          /\ UNCHANGED <<pc, typed>>
                     ELSE PromptorReturn(Converted(f, values))
             ELSE IF ElementRaises(conv, elems[j])
             THEN \* lines 43-45: diagnostic, continue; full_value is as it was
                  /\ stderr' = Append(stderr, ConvDiag)
                  /\ stack' = SetTop(AfterConvertError(f, values))
                  /\ UNCHANGED <<pc, typed>>
             ELSE \* the wrapper, given an empty element, calls promptor
                  /\ UNCHANGED stderr
                  /\ stack' = Append(SetTop([f EXCEPT !.acc = values, !.at = "await"]),
                                     WrapperFrame(actions[caller]))
                  /\ UNCHANGED <<pc, typed>>
    /\ UNCHANGED <<actions, namespace, caller, args, reads, stdout, exit_status, render,
                   host>>

----------------------------------------------------------------------------
(* PromptArgumentParser (lines 140-167) and the host parser's calls        *)

Names == {<<"x">>, <<"-", "y">>}
Dests == {<<"x">>, <<"y">>}

IsFlag(name) == name # <<>> /\ Head(name) = "-"

NargsValues ==
    {NargsNone} \cup {NargsSym(c) : c \in {"?", "*", "+"}} \cup {NargsInt(k) : k \in 0..MaxN}

\* The declarations tried: required absent, True or False; default absent,
\* None or a string.  The host rejects `required` on a positional.
Decls ==
    {d \in [name : Names, required : {"None", "True", "False"}, nargs : NargsValues,
            type : {"None", "int"}, has_default : BOOLEAN,
            default : {PyNone, PyStr(<<"7">>)}] :
        /\ ~IsFlag(d.name) => d.required = "None"
        /\ ~d.has_default => d.default = PyNone}

\* The raw strings the host hands to a slot's type function, and the values it
\* hands to a slot's __call__ when they come from the command line.
RawArgs == {<<>>, <<"7">>}
CmdValues ==
    {PyStr(r) : r \in RawArgs}
        \cup {PyList([i \in 1..k |-> PyStr(<<"7">>)]) : k \in 0..(MaxN + 1)}

\* A variant of Wraps that takes a default of None for no default.
WrapsUnlessDefaultValue(d) ==
    (d.required = "True" \/ ~IsFlag(d.name)) /\ d.default = PyNone

\* Line 143: the declaration is bound to a PromptArgumentParserAction.
Wraps(d) == (d.required = "True" \/ ~IsFlag(d.name)) /\ ~d.has_default

\* The keyword arguments the host builds for the action class (line 145): the
\* destination and option strings from the name; a positional is marked
\* required unless its nargs is '?' (or '*' with a default).
HostKwargs(d) ==
    [dest |-> IF IsFlag(d.name) THEN Tail(d.name) ELSE d.name,
     option_strings |-> IF IsFlag(d.name) THEN <<d.name>> ELSE <<>>,
     required |-> IF IsFlag(d.name) THEN d.required
                  ELSE IF d.nargs.sym = "?" \/ (d.nargs.sym = "*" /\ d.has_default)
                       THEN "None" ELSE "True",
     nargs |-> d.nargs,
     type |-> d.type,
     default |-> d.default]

\* A slot the facade leaves to the host: a plain action with the declared
\* configuration, which none of the code below touches.
PlainAction(kw) ==
    [NewAction(kw) EXCEPT !.kind = "plain", !.required = kw.required, !.nargs = kw.nargs,
                          !.type = kw.type, !.default = kw.default,
                          !.kwargs = [dest |-> kw.dest, type |-> kw.type],
                          !.__required = kw.required, !.__nargs = kw.nargs,
                          !.__type = kw.type, !.__default = kw.default]

NoRender == [kind |-> "none", in_call |-> 0]

\* The host parser's own -h action, which every parser starts with.
HelpAction ==
    PlainAction([dest |-> <<"h">>, option_strings |-> <<<<"-", "h">>>>, required |-> "None",
                 nargs |-> NargsInt(0), type |-> "None", default |-> PyNone])

\* The slots the caller has declared.  One argument is declared on the parser:
\* no code of a slot reads another slot, and print_help / print_usage treat
\* every slot alike.
Declared == {i \in 1..Len(actions) : actions[i] # HelpAction}

\* add_argument (lines 142-145)
add_argument(d) ==
    /\ pc = "idle"
    /\ Declared = {}
    /\ actions' = Append(actions, IF Wraps(d) THEN NewAction(HostKwargs(d))
                                  ELSE PlainAction(HostKwargs(d)))
    /\ last' = [Step("add_argument", Len(actions) + 1, PyNone) EXCEPT !.decl = d]
    /\ UNCHANGED <<pc, namespace, stack, caller, typed, args, reads, conv_calls, stderr,
                   stdout, exit_status, render, host>>

\* The slots print_help and print_usage switch (lines 149, 155, 160, 166).
Switched(a) == a.kind = "prompt" /\ ~a.provided_restored

\* Lines 148-150 and 159-161: every such slot shows its requested configuration.
AllProvided(acts) ==
    [i \in 1..Len(acts) |-> IF Switched(acts[i]) THEN restore_provided(acts[i]) ELSE acts[i]]

\* Lines 154-156 and 165-167: every such slot shows its crafted configuration.
AllCrafted(acts) ==
    [i \in 1..Len(acts) |-> IF Switched(acts[i]) THEN restore_crafted(acts[i]) ELSE acts[i]]

\* print_help up to the call of the host's renderer (lines 147-152)
print_help ==
    /\ pc = "idle"
    /\ actions' = AllProvided(actions)
    /\ pc' = "rendering"
    /\ render' = [kind |-> "help", in_call |-> 0]
    /\ last' = Step("print_help", 0, PyNone)
    /\ UNCHANGED <<namespace, stack, caller, typed, args, reads, conv_calls, stderr,
                   stdout, exit_status, host>>

\* print_usage up to the call of the host's renderer (lines 158-163)
print_usage ==
    /\ pc = "idle"
    /\ actions' = AllProvided(actions)
    /\ pc' = "rendering"
    /\ render' = [kind |-> "usage", in_call |-> 0]
    /\ last' = Step("print_usage", 0, PyNone)
    /\ UNCHANGED <<namespace, stack, caller, typed, args, reads, conv_calls, stderr,
                   stdout, exit_status, host>>

ExpectsError(a) ==
    [msg |-> "prog: error: argument NAME expects N arguments",
     NAME |-> a._argument_name, N |-> a._num_required_args]

\* The host's renderer returns: the rest of print_help / print_usage (lines
\* 154-156, 165-167); when __call__ printed the usage, the rest of its error
\* branch (lines 133-134).
RenderReturns ==
    /\ pc = "rendering"
    /\ actions' = AllCrafted(actions)
    /\ last' = Step("render_returns", render.in_call, PyNone)
    /\ render' = NoRender
    /\ IF render.in_call > 0
       THEN /\ stdout' = Append(stdout, ExpectsError(actions[render.in_call]))
            /\ pc' = "exited"
            /\ exit_status' = 1
       ELSE /\ pc' = "idle"
            /\ UNCHANGED <<stdout, exit_status>>
    /\ UNCHANGED <<namespace, stack, caller, typed, args, reads, conv_calls, stderr, host>>

\* The host's renderer raises or exits: the exception leaves print_help /
\* print_usage (and __call__) at line 152 / 163, and reaches the caller.
RenderRaises ==
    /\ pc = "rendering"
    /\ pc' = "idle"
    /\ last' = Step("render_raises", render.in_call, PyNone)
    /\ render' = NoRender
    /\ UNCHANGED <<actions, namespace, stack, caller, typed, args, reads, conv_calls,
                   stderr, stdout, exit_status, host>>

\* The host applies slot i's live type function, the wrapper of line 76, to
\* the raw string: a non-empty string is returned as it is, an empty one makes
\* the wrapper evaluate promptor's arguments and call it.  The host consults
\* a slot's type function once in a run.
TypeWrapper(i, raw) ==
    /\ pc = "idle"
    /\ i \in 1..Len(actions)
    /\ actions[i].kind = "prompt"
    /\ actions[i].type = "wrapper"
    /\ i \notin host.consulted
    /\ host' = [host EXCEPT !.consulted = @ \cup {i}]
    /\ caller' = i
    /\ last' = Step("type", i, PyStr(raw))
    /\ IF Truthy(PyStr(raw))
       THEN /\ typed' = PyStr(raw)
            /\ UNCHANGED <<pc, stack, args>>
       ELSE IF UseListRaises(actions[i])
       THEN /\ pc' = "raised"
            /\ UNCHANGED <<typed, stack, args>>
       ELSE /\ pc' = "prompting"
            /\ stack' = <<WrapperFrame(actions[i])>>
            /\ args' = CallArgs(WrapperFrame(actions[i]))
            /\ UNCHANGED typed
    /\ UNCHANGED <<actions, namespace, reads, conv_calls, stderr, stdout, exit_status,
                   render>>

\* The values the host may invoke slot i with: what the command line gave, or
\* what the slot's type function returned.
InvokeValues(i) == CmdValues \cup (IF caller = i /\ typed # PyNone THEN {typed} ELSE {})

\* __call__ (lines 129-137); its error branch goes on in RenderReturns.  The
\* host invokes a slot once in a run.
__call__(i, result_value) ==
    /\ pc = "idle"
    /\ i \in 1..Len(actions)
    /\ actions[i].kind = "prompt"
    /\ i \notin host.invoked
    /\ host' = [host EXCEPT !.invoked = @ \cup {i}]
    /\ last' = Step("__call__", i, result_value)
    /\ IF ArityViolated(actions[i], result_value)
       THEN /\ actions' = AllProvided(actions)
            /\ pc' = "rendering"
            /\ render' = [kind |-> "usage", in_call |-> i]
            /\ UNCHANGED namespace
       ELSE /\ actions' = [actions EXCEPT ![i] = restore_provided(@)]
            /\ namespace' = [namespace EXCEPT ![actions[i].dest] = result_value]
            /\ UNCHANGED <<pc, render>>
    /\ UNCHANGED <<stack, caller, typed, args, reads, conv_calls, stderr, stdout,
                   exit_status>>

----------------------------------------------------------------------------
(* The specification                                                       *)

\* Either a parser has been constructed and no argument declared, or promptor has
\* been called directly with a caller-supplied converter.
Init ==
    /\ actions = <<HelpAction>>
    /\ namespace = [d \in Dests |-> PyNone]
    /\ caller = 0
    /\ typed = PyNone
    /\ reads = 0
    /\ conv_calls = 0
    /\ stderr = <<>>
    /\ stdout = <<>>
    /\ exit_status = -1
    /\ render = NoRender
    /\ host = [consulted |-> {}, invoked |-> {}]
    /\ \/ /\ pc = "idle"
          /\ stack = <<>>
          /\ last = Step("PromptArgumentParser", 0, PyNone)
          /\ args = NoArgs
       \/ \E conv \in {"str", "int"}, use_list \in BOOLEAN, n \in 0..MaxN :
             /\ pc = "prompting"
             /\ stack = <<NewFrame(<<"p">>, conv, use_list, n)>>
             /\ args = CallArgs(NewFrame(<<"p">>, conv, use_list, n))
             /\ last = Step("promptor", 0, PyNone)

Next ==
    \/ \E line \in Lines : PromptRead(line)
    \/ PromptConvert
    \/ \E d \in Decls : add_argument(d)
    \/ print_help
    \/ print_usage
    \/ RenderReturns
    \/ RenderRaises
    \/ \E i \in Declared, raw \in RawArgs : TypeWrapper(i, raw)
    \/ \E i \in Declared : \E v \in InvokeValues(i) : __call__(i, v)

Spec == Init /\ [][Next]_vars

----------------------------------------------------------------------------
(* Properties                                                              *)

\* The last step was a step of promptor and the outermost call has returned
\* (its value is `typed`).
PromptorReturned == stack = <<>> /\ last.op \in {"input", "convert"}

\* The strings promptor has to convert on the stripped line `line`, given the
\* arguments of the call.
LineElements(line) == IF args.use_list THEN Split(line) ELSE <<line>>

\* What promptor has to return for the stripped line `line` when the caller's
\* converter succeeds on all of it.
LineResult(line) ==
    IF args.use_list
    THEN PyList([i \in 1..Len(Split(line)) |-> ConvValue(args.type_converter, Split(line)[i])])
    ELSE ConvValue(args.type_converter, line)

\* C1: in a direct promptor call with num_required_args >= 1, once the
\* converter has succeeded on an accepted line, promptor has returned the
\* converted value of that line (whatever the value: 0 and '' included).
C1_ReturnsOnceConverted ==
    ( /\ caller = 0
      /\ last.op = "convert"
      /\ args.num_required_args >= 1
      /\ \A j \in 1..Len(LineElements(last.arg.s)) :
            ~ConvRaises(args.type_converter, LineElements(last.arg.s)[j]) )
    => (pc = "returned" /\ typed = LineResult(last.arg.s))

\* C2: with num_required_args N >= 1, promptor never returns a list whose
\* length differs from N, and in list mode it returns a list of N elements.
C2_ListHasNElements ==
    (PromptorReturned /\ args.num_required_args >= 1)
    => /\ typed.t = "list" => Len(typed.l) = args.num_required_args
       /\ args.use_list => typed.t = "list"

\* C2 happens: a list of two elements is returned after a line with another
\* number of elements was rejected.
C2_Witness ==
    /\ PromptorReturned
    /\ args.use_list /\ args.num_required_args = 2
    /\ typed.t = "list" /\ Len(typed.l) = 2
    /\ \E k \in 1..Len(stderr) : stderr[k] = CountDiag(2)

\* C3: when the caller's converter raises on the accepted line (on the line in
\* scalar mode, on any element in list mode), the step prints the conversion
\* diagnostic, drops the line and everything converted from it, and is back at
\* input(); nothing is returned, nothing propagates, full_value is as it was.
C3_ConversionFailureRetries ==
    [][ ( /\ pc = "prompting"
          /\ Top.at = "convert"
          /\ Top.type_converter \in {"str", "int"}
          /\ LET es == IF Top.use_list THEN Split(Top.inputted_value.s)
                       ELSE <<Top.inputted_value.s>>
             IN \E j \in 1..Len(es) : ConvRaises(Top.type_converter, es[j]) )
        => /\ stderr' = Append(stderr, ConvDiag)
           /\ pc' = "prompting"
           /\ stack' = [stack EXCEPT ![Len(stack)] =
                           [@ EXCEPT !.inputted_value = PyNone, !.acc = <<>>, !.at = "input"]]
           /\ typed' = typed
           /\ reads' = reads ]_vars

\* C3 happens: in list mode the first element converted and the second did
\* not; the diagnostic is the last thing printed and promptor is at input().
C3_Witness ==
    /\ pc = "prompting"
    /\ last.op = "convert"
    /\ last.arg = PyStr(<<"7", ",", " ", ",">>)
    /\ args.use_list /\ args.type_converter = "int"
    /\ stderr # <<>> /\ stderr[Len(stderr)] = ConvDiag
    /\ Top.at = "input"

\* C4: in list mode, for every num_required_args, a read of a line that is not
\* empty after stripping and has another number of elements prints the count
\* diagnostic and leaves promptor at input(): no return, no converter call.
C4_WrongCountReprompts ==
    [][ ( /\ pc = "prompting"
          /\ Top.at = "input"
          /\ Top.use_list
          /\ reads' = reads + 1
          /\ ~last'.empty
          /\ last'.count # Top.num_required_args )
        => /\ stderr' = Append(stderr, CountDiag(Top.num_required_args))
           /\ pc' = "prompting"
           /\ Len(stack') = Len(stack)
           /\ stack'[Len(stack')].at = "input"
           /\ conv_calls' = conv_calls ]_vars

\* C5: with num_required_args = 0, when the first line read is empty after
\* stripping, promptor has returned '' after that one read, with no diagnostic
\* printed and no converter call, in scalar and in list mode.
C5_EmptyLineShortCircuits ==
    ( /\ args # NoArgs
      /\ args.num_required_args = 0
      /\ reads = 1
      /\ last.op = "input"
      /\ last.empty )
    => /\ stack = <<>>
       /\ typed = PyStr(<<>>)
       /\ stderr = <<>>
       /\ conv_calls = 0

\* C6: a promptor call in list mode with num_required_args >= 1 returns the
\* list of the converter applied to each ', '-separated element of the last
\* line read, in order: the caller's converter in a direct call; in a call
\* from a type wrapper, whose converter returns a non-empty element as it is,
\* the elements themselves when none of them is empty.
C6_ListIsElementwiseConversion ==
    (PromptorReturned /\ args.use_list /\ args.num_required_args >= 1)
    => LET es == Split(last.arg.s)
       IN /\ caller = 0
             => typed = PyList([i \in 1..Len(es) |-> ConvValue(args.type_converter, es[i])])
          /\ (caller > 0 /\ \A i \in 1..Len(es) : es[i] # <<>>)
             => typed = PyList([i \in 1..Len(es) |-> PyStr(es[i])])

\* C6 happens: " 7, 0 " is read after a rejected line and [7, 0] is returned.
C6_Witness ==
    /\ PromptorReturned
    /\ caller = 0
    /\ args.use_list /\ args.num_required_args = 2 /\ args.type_converter = "int"
    /\ stderr # <<>>
    /\ last.arg = PyStr(<<"7", ",", " ", "0">>)
    /\ typed = PyList(<<PyInt(7), PyInt(0)>>)

\* C7: the type wrapper returns a non-empty raw string unchanged, and for an
\* empty one calls promptor with the converter the caller declared for the
\* slot (str when none was declared), never with the wrapper itself.
C7_PromptUsesDeclaredConverter ==
    /\ (last.op = "type" /\ last.arg # PyStr(<<>>)) => typed = last.arg
    /\ (caller > 0 /\ args # NoArgs)
       => args.type_converter =
             (IF actions[caller]._type = "None" THEN "str" ELSE actions[caller]._type)

\* C8: given an empty raw value, the type wrapper reaches promptor, with
\* use_list true exactly when the requested nargs is '*' or '+' or
\* num_required_args > 1; for '?' with use_list false and num_required_args 0.
C8_UseListDecision ==
    (last.op = "type" /\ last.arg = PyStr(<<>>))
    => LET a == actions[last.slot]
       IN /\ pc = "prompting"
          /\ args.use_list = (a._nargs.sym \in {"*", "+"} \/ a._num_required_args > 1)
          /\ args.num_required_args = a._num_required_args
          /\ a._nargs.sym = "?" => (~args.use_list /\ args.num_required_args = 0)

\* C9: __call__ with a value whose length differs from num_required_args > 1
\* commits nothing and prints the usage, after which the error line is
\* printed and the process exits with status 1, the namespace still as it
\* was; with any other value it does not exit and commits the value unchanged
\* under dest.  The process exits in no other way.
C9_InvocationContract ==
    [][ /\ (host'.invoked # host.invoked)
           => LET i == CHOOSE i \in host'.invoked : i \notin host.invoked
                  a == actions[i]
                  v == last'.arg
              IN IF a._num_required_args > 1 /\ PyLen(v) # a._num_required_args
                 THEN /\ namespace' = namespace
                      /\ pc' = "rendering"
                      /\ render' = [kind |-> "usage", in_call |-> i]
                      /\ exit_status' = -1
                 ELSE /\ namespace' = [namespace EXCEPT ![a.dest] = v]
                      /\ pc' = "idle"
                      /\ exit_status' = -1
        /\ (pc = "rendering" /\ render.in_call > 0 /\ last'.op = "render_returns")
           => /\ pc' = "exited"
              /\ exit_status' = 1
              /\ stdout' = Append(stdout,
                    [msg |-> "prog: error: argument NAME expects N arguments",
                     NAME |-> actions[render.in_call]._argument_name,
                     N |-> actions[render.in_call]._num_required_args])
              /\ namespace' = namespace
        /\ (pc # "exited" /\ pc' = "exited")
           => (pc = "rendering" /\ render.in_call > 0 /\ exit_status' = 1) ]_vars

\* C9 happens: a slot of two required arguments was invoked with a value of
\* another length, and the process has exited with status 1, nothing committed.
C9_Witness ==
    /\ pc = "exited"
    /\ exit_status = 1
    /\ Len(stdout) = 1
    /\ \E i \in Declared : i \in host.invoked /\ actions[i]._num_required_args = 2
    /\ \A d \in Dests : namespace[d] = PyNone

\* C10: after a print_help or print_usage that completed normally, every
\* prompting slot's live required / nargs / type / default is the installed
\* configuration: False, '*' or '?', the prompting wrapper, ''.
C10_RenderLeavesInstalled ==
    last.op = "render_returns"
    => \A i \in 1..Len(actions) :
          actions[i].kind = "prompt"
          => /\ actions[i].required = "False"
             /\ actions[i].nargs = (IF actions[i]._num_required_args > 1
                                    THEN NargsSym("*") ELSE NargsSym("?"))
             /\ actions[i].type = "wrapper"
             /\ actions[i].default = PyStr(<<>>)

\* C10 happens: a render has completed on a parser whose prompting slot was
\* declared with nargs=2 and has not been invoked.
C10_Witness ==
    /\ last.op = "render_returns"
    /\ pc = "idle"
    /\ \E i \in Declared :
          /\ actions[i].kind = "prompt"
          /\ actions[i]._nargs = NargsInt(2)
          /\ actions[i]._required = "True"
          /\ i \notin host.invoked

\* The slots bound to a PromptArgumentParserAction.
PromptingSlots == {i \in 1..Len(actions) : actions[i].kind = "prompt"}

\* The live required / nargs / type / default of slot a are the installed
\* (crafted) ones, respectively the requested (caller-provided) ones.
ShowsInstalled(a) ==
    /\ a.required = a.__required /\ a.nargs = a.__nargs
    /\ a.type = a.__type /\ a.default = a.__default
ShowsRequested(a) ==
    /\ a.required = a._required /\ a.nargs = a._nargs
    /\ a.type = a._type /\ a.default = a._default

\* C11: after a print_help / print_usage whose renderer raised or exited,
\* every prompting slot is back in its installed configuration.
C11_RestoredAfterAbnormalRender ==
    last.op = "render_raises" => \A i \in PromptingSlots : ShowsInstalled(actions[i])

\* C12: while the host's renderer runs inside print_help or print_usage, every
\* prompting slot shows the requested required / nargs / type / default and
\* not the installed False / wrapper / '', whichever view it was in before.
C12_RenderShowsRequested ==
    pc = "rendering"
    => \A i \in PromptingSlots :
          /\ ShowsRequested(actions[i])
          /\ actions[i].required # "False"
          /\ actions[i].type # "wrapper"
          /\ actions[i].default # PyStr(<<>>)

\* C12 happens: print_help is rendering on a parser whose slot, a required
\* option of two arguments, has already been invoked with its value.
C12_Witness ==
    /\ pc = "rendering"
    /\ render = [kind |-> "help", in_call |-> 0]
    /\ \E i \in PromptingSlots :
          /\ i \in host.invoked
          /\ actions[i]._required = "True"
          /\ actions[i]._nargs = NargsInt(2)
          /\ actions[i].nargs = NargsInt(2)

\* C13: in every state outside a help / usage render, every prompting slot's
\* live configuration is the installed one.
C13_InstalledOutsideRender ==
    pc # "rendering" => \A i \in PromptingSlots : ShowsInstalled(actions[i])

\* C14: add_argument binds the declaration to a prompting slot exactly when
\* (required is truthy or the first name does not start with '-') and there
\* is no default key, whatever the default's value; a plain slot keeps its
\* declared configuration and is never prompted for.
C14_WrappingRule ==
    /\ last.op = "add_argument"
       => (actions[last.slot].kind = "prompt"
           <=> /\ (last.decl.required = "True" \/ Head(last.decl.name) # "-")
               /\ ~last.decl.has_default)
    /\ (Declared # {} /\ PromptingSlots = {})
       => /\ stack = <<>> /\ reads = 0 /\ args = NoArgs
          /\ \A i \in Declared : ShowsRequested(actions[i])

\* C14 happens: a required option declared with default=None was registered
\* as a plain slot.
C14_Witness ==
    /\ last.op = "add_argument"
    /\ last.decl.name = <<"-", "y">>
    /\ last.decl.required = "True"
    /\ last.decl.has_default /\ last.decl.default = PyNone
    /\ actions[last.slot].kind = "plain"

\* C15: a newly constructed prompting slot has num_required_args 0 for nargs
\* '*' or '?', 1 for '+', N for an integer N and 1 for no nargs; its live
\* configuration is nargs '*' when num_required_args > 1 and '?' otherwise,
\* required False, default ''; the requested required / nargs / type /
\* default are stored as the constructor was given them.
C15_Construction ==
    (last.op = "add_argument" /\ actions[last.slot].kind = "prompt")
    => LET a == actions[last.slot]
           d == last.decl
       IN /\ a._num_required_args =
                (CASE d.nargs.sym \in {"*", "?"} -> 0
                   [] d.nargs.sym = "+" -> 1
                   [] d.nargs.sym = "int" -> d.nargs.n
                   [] d.nargs.sym = "None" -> 1)
          /\ a.nargs = (IF a._num_required_args > 1 THEN NargsSym("*") ELSE NargsSym("?"))
          /\ a.required = "False"
          /\ a.default = PyStr(<<>>)
          /\ a._nargs = d.nargs /\ a._type = d.type /\ a._default = PyNone
          /\ a._required = HostKwargs(d).required

\* C16: provided_restored is true exactly when the slot's live configuration
\* is the requested one, and false exactly when it is the installed one.
C16_FlagTracksView ==
    \A i \in PromptingSlots :
        /\ actions[i].provided_restored <=> ShowsRequested(actions[i])
        /\ ~actions[i].provided_restored <=> ShowsInstalled(actions[i])

\* C17: no step changes anything of a prompting slot but its live required /
\* nargs / type / default, and after every step the four live fields are all
\* the requested ones or all the installed ones.
C17_ViewSwapFrame ==
    [][ \A i \in 1..Len(actions') :
           actions'[i].kind = "prompt"
           => /\ i <= Len(actions)
                 => actions'[i] = [actions[i] EXCEPT !.required = actions'[i].required,
                                                     !.nargs = actions'[i].nargs,
                                                     !.type = actions'[i].type,
                                                     !.default = actions'[i].default]
              /\ ShowsRequested(actions'[i]) \/ ShowsInstalled(actions'[i]) ]_vars

\* C17 happens: a slot was invoked with its value, which left it in the
\* requested view, and a later render has switched it to the installed view.
C17_Witness ==
    /\ last.op = "render_returns"
    /\ pc = "idle"
    /\ \E i \in PromptingSlots :
          /\ i \in host.invoked
          /\ namespace[actions[i].dest] # PyNone
          /\ ShowsInstalled(actions[i])
          /\ actions[i]._nargs = NargsInt(2)

\* C18: for a slot declared with nargs '+', num_required_args is 1 and the
\* wrapper prompts in list mode; a line of two or more elements is answered
\* with the count diagnostic and another prompt, no converter called; the
\* value the prompt returns is a list of one element.
C18_OneOrMoreTakesOneElement ==
    [][ (caller' > 0 /\ args' # NoArgs /\ actions'[caller']._nargs = NargsSym("+"))
        => /\ actions'[caller']._num_required_args = 1
           /\ args'.use_list /\ args'.num_required_args = 1
           /\ (reads' = reads + 1 /\ last'.count >= 2)
              => /\ stderr' = Append(stderr, CountDiag(1))
                 /\ pc' = "prompting"
                 /\ Len(stack') = 1 /\ stack'[1].at = "input"
                 /\ conv_calls' = conv_calls
                 /\ typed' = typed
           /\ (stack' = <<>> /\ last'.op \in {"input", "convert"})
              => (typed'.t = "list" /\ Len(typed'.l) = 1) ]_vars

\* C18 happens: the prompt of a '+' slot rejected a line of several elements
\* and then returned the one-element list ['7'].
C18_Witness ==
    /\ PromptorReturned
    /\ caller > 0 /\ actions[caller]._nargs = NargsSym("+")
    /\ typed = PyList(<<PyStr(<<"7">>)>>)
    /\ stderr = <<CountDiag(1)>>

====
